---- MODULE Spec2Model ----
(***************************************************************************)
(* Model of the MammoScan AI Go backend: the predict handler               *)
(* (backend/internal/handlers/handlers.go), the image preprocessing        *)
(* pipeline (backend/internal/preprocess/image.go), the ONNX inference     *)
(* engine (backend/internal/inference/onnx.go) and the process start-up    *)
(* (backend/cmd/api/main.go).                                              *)
(*                                                                         *)
(* Five specifications share the module:                                  *)
(*   Spec        the server: start-up, then NumRequests requests handled   *)
(*               by concurrent goroutines that share one engine handle.    *)
(*   SpecDecide  the threshold decision of Handler.Predict as a function   *)
(*               of the score vector returned by the engine.               *)
(*   SpecNormalize  PreprocessImage as a function of the uploaded file.    *)
(*   SpecTensor  the pixel loop of PreprocessImage, one iteration a step.  *)
(*   SpecResize  steps 2 and 3 of PreprocessImage on the pixels of a       *)
(*               decoded image, at reduced bounds.                         *)
(*                                                                         *)
(* Numbers.  A float is a record [k, v]: k = "fin" with v the value in     *)
(* units of 10^-6, k = "nan", or k = "inf" with v the sign.                *)
(***************************************************************************)
EXTENDS Integers, Sequences, FiniteSets, TLC

VARIABLES
    mainPc,        \* main(): "download", "load", "serving" or "exited"
    artifact,      \* a readable model file exists at modelPath
    loads,         \* number of calls of NewONNXInference that returned an engine
    model,         \* the graph decoded by UnmarshalBinary (ONNXInference.model)
    engineInput,   \* tensor held by input node 0 of the shared graph
    engineOutput,  \* output tensors held by the shared graph after Run
    pc,            \* per request: position inside Handler.Predict
    fileHeader,    \* per request: outcome of c.FormFile("image")
    inputTensor,   \* per request: local inputTensor of Handler.Predict
    prediction,    \* per request: local prediction of Handler.Predict
    response,      \* per request: what c.JSON (or the recovery middleware) wrote
    calls,         \* per request: calls of PreprocessImage and of Predict
    dPc, dScores, dResult,                      \* SpecDecide
    nPc, nFile, nResult,                        \* SpecNormalize
    tPc, resizedImg, ty, tx, tensorData, writes, \* SpecTensor
    decodedImg                                   \* SpecResize: the decoded image

serverVars == <<mainPc, artifact, loads, model, engineInput, engineOutput,
                pc, fileHeader, inputTensor, prediction, response, calls>>
decideVars == <<dPc, dScores, dResult>>
normalizeVars == <<nPc, nFile, nResult>>
tensorVars == <<tPc, resizedImg, ty, tx, tensorData, writes, decodedImg>>
vars == <<serverVars, decideVars, normalizeVars, tensorVars>>

(***************************************************************************)
(* Bounds                                                                  *)
(***************************************************************************)
NumRequests == 2
Requests == 1..NumRequests

(***************************************************************************)
(* Floats                                                                  *)
(***************************************************************************)
Fin(v) == [k |-> "fin", v |-> v]
NaN == [k |-> "nan", v |-> 0]
PosInf == [k |-> "inf", v |-> 1]
NegInf == [k |-> "inf", v |-> -1]

IsFinite(f) == f.k = "fin"

\* IEEE 754 ">" as Go evaluates it: false as soon as one side is NaN.
Gt(a, b) ==
    CASE a.k = "nan" \/ b.k = "nan" -> FALSE
      [] a.k = "inf" /\ b.k = "inf" -> a.v > b.v
      [] a.k = "inf" /\ b.k = "fin" -> a.v > 0
      [] a.k = "fin" /\ b.k = "inf" -> b.v < 0
      [] OTHER -> a.v > b.v

\* float64(x) of a float32 x: every float32 is a float64, so the class and the
\* value are kept.
Float64(f32) ==
    CASE f32.k = "fin" -> Fin(f32.v)
      [] f32.k = "inf" -> [k |-> "inf", v |-> f32.v]
      [] OTHER -> NaN

(***************************************************************************)
(* models.PredictionResponse, models.ErrorResponse and the responses       *)
(***************************************************************************)
StatusOK == 200
StatusBadRequest == 400
StatusInternalServerError == 500

NoResponse == [status |-> 0, kind |-> "none"]

ErrorResponse(status, msg) ==
    [status |-> status, kind |-> "error", error |-> msg]

PredictionResponse(p, score, name, threshold) ==
    [status |-> StatusOK, kind |-> "prediction", prediction |-> p,
     confidence_score |-> score, model_name |-> name,
     model_threshold |-> threshold]

\* gin.Default() installs the recovery middleware: a panic in a handler ends
\* the request with status 500 and no body.
Recovered == [status |-> StatusInternalServerError, kind |-> "panic"]

(***************************************************************************)
(* Handler.Predict, step 4: the threshold decision                         *)
(***************************************************************************)
modelThreshold == 110593
modelName == "baseline_cnn_v2"

LabelGe(confidenceScore) ==
    IF ~Gt(Fin(modelThreshold), confidenceScore) THEN "Cancer" ELSE "Non-Cancer"

Label(confidenceScore) ==
    IF Gt(confidenceScore, Fin(modelThreshold)) THEN "Cancer" ELSE "Non-Cancer"

DecideLast(scores) ==
    IF Len(scores) = 0
    THEN Recovered
    ELSE LET confidenceScore == Float64(scores[Len(scores)])
         IN  PredictionResponse(Label(confidenceScore), confidenceScore,
                                modelName, Fin(modelThreshold))

\* From prediction[0] to c.JSON(http.StatusOK, response): the value handed to
\* c.JSON.  Indexing an empty slice panics.  There is no branch for a
\* non-finite confidenceScore: it is compared and labelled like any other.
Decide(scores) ==
    IF Len(scores) = 0
    THEN Recovered
    ELSE LET confidenceScore == Float64(scores[1])
         IN  PredictionResponse(Label(confidenceScore), confidenceScore,
                                modelName, Fin(modelThreshold))

(***************************************************************************)
(* preprocess.PreprocessImage, seen from the handler                       *)
(*                                                                         *)
(* An upload is the content of the "image" form file: decodable or not,    *)
(* and, when decodable, the bounds of the decoded image and its content    *)
(* (an identifier: the engine's output is a function of it).               *)
(***************************************************************************)
TargetWidth == 224
TargetHeight == 224
Channels == 3

Images == {1, 2, 3, 4}
Dims == {1, 100, 224, 512}
Uploads == [decodable : BOOLEAN, w : Dims, h : Dims, img : Images]

NoTensor == [shape |-> <<>>, len |-> 0, img |-> 0]

\* resize.Resize(width, height, img, resize.Lanczos3) with both targets
\* non-zero: the input is returned as it is when it already has the target
\* bounds or has no pixels, and an image of exactly width x height otherwise.
ResizeKeepAspect(width, height, img) ==
    IF img.w >= img.h
    THEN [w |-> width, h |-> ((img.h * width) \div img.w), img |-> img.img]
    ELSE [w |-> ((img.w * height) \div img.h), h |-> height, img |-> img.img]

Resize(width, height, img) ==
    IF width = img.w /\ height = img.h THEN img
    ELSE IF img.w <= 0 \/ img.h <= 0 THEN img
    ELSE [w |-> width, h |-> height, img |-> img.img]

\* len(tensorData) of make([]float32, 1*height*width*3)
TensorLen(height, width) == 1 * height * width * Channels

\* tensor.New(tensor.WithShape(1, height, width, 3), tensor.WithBacking(tensorData))
NewTensor(height, width, img) ==
    [shape |-> <<1, height, width, Channels>>,
     len |-> TensorLen(height, width),
     img |-> img]

PreprocessImage(file) ==
    IF ~file.decodable
    THEN [err |-> <<"failed to decode image">>, tensor |-> NoTensor]
    ELSE LET decoded == [w |-> file.w, h |-> file.h, img |-> file.img]
             resized == Resize(TargetWidth, TargetHeight, decoded)
             height == resized.h
             width == resized.w
         IN  [err |-> <<>>, tensor |-> NewTensor(height, width, resized.img)]

(***************************************************************************)
(* The loaded graph.  What a graph computes is fixed by the model file:    *)
(* ModelOutput(m, img) is the list of output tensors the graph m holds     *)
(* after a run on the tensor of image img.                                 *)
(***************************************************************************)
Models == {"cnn", "no_outputs", "float64_output"}

Float32Tensor(data) == [dtype |-> "float32", data |-> data]
Float64Tensor(data) == [dtype |-> "float64", data |-> data]

ModelOutput(m, img) ==
    CASE m = "no_outputs" -> <<>>
      [] m = "float64_output" -> <<Float64Tensor(<<Fin(989000)>>)>>
      [] m = "cnn" /\ img = 1 -> <<Float32Tensor(<<Fin(989000)>>)>>
      [] m = "cnn" /\ img = 2 ->
            <<Float32Tensor(<<Fin(110593), Fin(989000)>>),
              Float32Tensor(<<Fin(989000)>>)>>
      [] m = "cnn" /\ img = 3 -> <<Float32Tensor(<<>>)>>
      [] OTHER -> <<Float32Tensor(<<NaN>>)>>

NoOutput == <<>>
NoCalls == [preprocess |-> 0, predict |-> 0]

(***************************************************************************)
(* main()                                                                  *)
(***************************************************************************)
\* The state of the server before main() has loaded the model.
ServerInit(start) ==
    /\ mainPc = start
    /\ artifact \in (IF start = "off" THEN {FALSE} ELSE BOOLEAN)
    /\ loads = 0
    /\ model = "none"
    /\ engineInput = NoTensor
    /\ engineOutput = NoOutput
    /\ pc = [r \in Requests |-> "FormFile"]
    /\ fileHeader = [r \in Requests |-> "unset"]
    /\ inputTensor = [r \in Requests |-> NoTensor]
    /\ prediction = [r \in Requests |-> <<>>]
    /\ response = [r \in Requests |-> NoResponse]
    /\ calls = [r \in Requests |-> NoCalls]

DecideOff == dPc = "off" /\ dScores = <<>> /\ dResult = NoResponse

NormalizeOff ==
    nPc = "off" /\ nFile = <<>> /\ nResult = [err |-> <<>>, tensor |-> NoTensor]

TensorOff ==
    /\ tPc = "off" /\ resizedImg = <<>> /\ ty = 0 /\ tx = 0
    /\ tensorData = <<>> /\ writes = <<>> /\ decodedImg = <<>>

\* main() either reads the model file that is at MODEL_PATH or first fetches
\* it from the object store (downloadFromGCS).
Init ==
    /\ \E start \in {"download", "load"} : ServerInit(start)
    /\ DecideOff /\ NormalizeOff /\ TensorOff

\* log.Fatalf after a failed download or a failed load: the process exits.
StartupFailedContinue == "serving"

StartupFailed == "exited"

\* downloadFromGCS(ctx, bucket, object, modelPath), then log.Fatalf on error
DownloadModel ==
    /\ mainPc = "download"
    /\ \E ok \in BOOLEAN :
          IF ok
          THEN artifact' = TRUE /\ mainPc' = "load"
          ELSE mainPc' = StartupFailed /\ UNCHANGED artifact
    /\ UNCHANGED <<loads, model, engineInput, engineOutput, pc, fileHeader,
                   inputTensor, prediction, response, calls,
                   decideVars, normalizeVars, tensorVars>>

\* inference.NewONNXInference: os.ReadFile (no readable file) or
\* UnmarshalBinary fails and log.Fatalf ends the process, or the engine is
\* built and the router runs.
LoadModel ==
    /\ mainPc = "load"
    /\ \E ok \in BOOLEAN :
          IF ok /\ artifact
          THEN /\ \E m \in Models : model' = m
               /\ loads' = loads + 1
               /\ mainPc' = "serving"
          ELSE /\ mainPc' = StartupFailed
               /\ UNCHANGED <<model, loads>>
    /\ UNCHANGED <<artifact, engineInput, engineOutput, pc, fileHeader, inputTensor,
                   prediction, response, calls,
                   decideVars, normalizeVars, tensorVars>>

(***************************************************************************)
(* Handler.Predict, one goroutine per request                              *)
(***************************************************************************)
RespondNoReturn(r, resp) ==
    /\ response' = [response EXCEPT ![r] = resp]
    /\ UNCHANGED pc

\* c.JSON(status, body) followed by return
Respond(r, resp) ==
    /\ response' = [response EXCEPT ![r] = resp]
    /\ pc' = [pc EXCEPT ![r] = "done"]

Goto(r, label) ==
    /\ pc' = [pc EXCEPT ![r] = label]
    /\ UNCHANGED response

MissingImageStatus500 == StatusInternalServerError

MissingImageStatus == StatusBadRequest

\* fileHeader, err := c.FormFile("image")
FormFile(r) ==
    /\ mainPc = "serving" /\ pc[r] = "FormFile"
    /\ \E present \in BOOLEAN :
          IF present
          THEN /\ fileHeader' = [fileHeader EXCEPT ![r] = "ok"]
               /\ Goto(r, "Open")
          ELSE /\ fileHeader' = [fileHeader EXCEPT ![r] = "err"]
               /\ Respond(r, ErrorResponse(MissingImageStatus,
                                           <<"image file is required">>))
    /\ UNCHANGED <<mainPc, artifact, loads, model, engineInput, engineOutput,
                   inputTensor, prediction, calls,
                   decideVars, normalizeVars, tensorVars>>

\* file, err := fileHeader.Open()
Open(r) ==
    /\ mainPc = "serving" /\ pc[r] = "Open"
    /\ \E ok \in BOOLEAN :
          IF ok
          THEN Goto(r, "Preprocess")
          ELSE Respond(r, ErrorResponse(StatusInternalServerError,
                                        <<"failed to open uploaded file">>))
    /\ UNCHANGED <<mainPc, artifact, loads, model, fileHeader, engineInput, engineOutput,
                   inputTensor, prediction, calls, decideVars, normalizeVars, tensorVars>>

\* inputTensor, err := preprocess.PreprocessImage(file)
Preprocess(r) ==
    /\ mainPc = "serving" /\ pc[r] = "Preprocess"
    /\ \E file \in Uploads :
          LET res == PreprocessImage(file)
          IN  /\ calls' = [calls EXCEPT ![r].preprocess = @ + 1]
              /\ IF res.err # <<>>
                 THEN /\ Respond(r, ErrorResponse(StatusInternalServerError,
                                   <<"failed to preprocess image">> \o res.err))
                      /\ UNCHANGED inputTensor
                 ELSE /\ inputTensor' = [inputTensor EXCEPT ![r] = res.tensor]
                      /\ Goto(r, "SetInput")
    /\ UNCHANGED <<mainPc, artifact, loads, model, fileHeader, engineInput, engineOutput,
                   prediction, decideVars, normalizeVars, tensorVars>>

PredictFailedRetry(r, err) == Goto(r, "SetInput")

\* The handler's answer to an error returned by h.InferenceEngine.Predict.
PredictFailed(r, err) ==
    Respond(r, ErrorResponse(StatusInternalServerError,
                             <<"prediction failed", err>>))

\* ONNXInference.Predict, step 1: o.model.SetInput(0, inputTensor)
SetInput(r) ==
    /\ mainPc = "serving" /\ pc[r] = "SetInput"
    /\ calls' = [calls EXCEPT ![r].predict = @ + 1]
    /\ \E ok \in BOOLEAN :
          IF ok
          THEN /\ engineInput' = inputTensor[r]
               /\ Goto(r, "Run")
          ELSE /\ PredictFailed(r, "failed to set input")
               /\ UNCHANGED engineInput
    /\ UNCHANGED <<mainPc, artifact, loads, model, fileHeader, engineOutput, inputTensor,
                   prediction, decideVars, normalizeVars, tensorVars>>

\* ONNXInference.Predict, step 2: g.Run() on the shared graph.  The backend
\* is the *gorgonnx.Graph NewONNXInference built, so the type assertion holds.
Run(r) ==
    /\ mainPc = "serving" /\ pc[r] = "Run"
    /\ \E ok \in BOOLEAN :
          IF ok
          THEN /\ engineOutput' = ModelOutput(model, engineInput.img)
               /\ Goto(r, "GetOutput")
          ELSE /\ PredictFailed(r, "failed to run model")
               /\ UNCHANGED engineOutput
    /\ UNCHANGED <<mainPc, artifact, loads, model, fileHeader, engineInput, inputTensor,
                   prediction, calls, decideVars, normalizeVars, tensorVars>>

OutputSlotLast(outputs) == outputs[Len(outputs)]

\* outputs[0]
OutputSlot(outputs) == outputs[1]

\* ONNXInference.Predict, steps 3 and 4: o.model.GetOutputTensors() and the
\* conversion of output slot 0, then the handler's error check.
GetOutput(r) ==
    /\ mainPc = "serving" /\ pc[r] = "GetOutput"
    /\ \E ok \in BOOLEAN :
          LET outputs == engineOutput
          IN  IF ~ok
              THEN PredictFailed(r, "failed to get output") /\ UNCHANGED prediction
              ELSE IF Len(outputs) = 0
              THEN PredictFailed(r, "no output tensors found") /\ UNCHANGED prediction
              ELSE IF OutputSlot(outputs).dtype # "float32"
              THEN PredictFailed(r, "failed to convert output to float32 slice")
                   /\ UNCHANGED prediction
              ELSE /\ prediction' = [prediction EXCEPT ![r] =
                                            OutputSlot(outputs).data]
                   /\ Goto(r, "Decide")
    /\ UNCHANGED <<mainPc, artifact, loads, model, fileHeader, engineInput, engineOutput,
                   inputTensor, calls, decideVars, normalizeVars, tensorVars>>

\* confidenceScore := float64(prediction[0]) ... c.JSON(http.StatusOK, response)
DecideStep(r) ==
    /\ mainPc = "serving" /\ pc[r] = "Decide"
    /\ Respond(r, Decide(prediction[r]))
    /\ UNCHANGED <<mainPc, artifact, loads, model, fileHeader, engineInput, engineOutput,
                   inputTensor, prediction, calls, decideVars, normalizeVars, tensorVars>>

Next ==
    \/ DownloadModel
    \/ LoadModel
    \/ \E r \in Requests : FormFile(r)
    \/ \E r \in Requests : Open(r)
    \/ \E r \in Requests : Preprocess(r)
    \/ \E r \in Requests : SetInput(r)
    \/ \E r \in Requests : Run(r)
    \/ \E r \in Requests : GetOutput(r)
    \/ \E r \in Requests : DecideStep(r)

Spec == Init /\ [][Next]_vars

(***************************************************************************)
(* SpecDecide: the decision of Handler.Predict applied to a score vector   *)
(***************************************************************************)
MaxScores == 2

ScoreValues ==
    {Fin(-5), Fin(0), Fin(110592), Fin(110593), Fin(110594), Fin(989000),
     NaN, PosInf, NegInf}

ScoreVectors == UNION {[1..n -> ScoreValues] : n \in 0..MaxScores}

InitDecide ==
    /\ ServerInit("off") /\ NormalizeOff /\ TensorOff
    /\ dPc = "ready"
    /\ dScores \in ScoreVectors
    /\ dResult = NoResponse

DecideApply ==
    /\ dPc = "ready"
    /\ dResult' = Decide(dScores)
    /\ dPc' = "done"
    /\ UNCHANGED <<dScores, serverVars, normalizeVars, tensorVars>>

NextDecide == DecideApply

SpecDecide == InitDecide /\ [][NextDecide]_vars

(***************************************************************************)
(* SpecNormalize: PreprocessImage applied to an uploaded file              *)
(***************************************************************************)
InitNormalize ==
    /\ ServerInit("off") /\ DecideOff /\ TensorOff
    /\ nPc = "ready"
    /\ nFile \in Uploads
    /\ nResult = [err |-> <<>>, tensor |-> NoTensor]

NormalizeApply ==
    /\ nPc = "ready"
    /\ nResult' = PreprocessImage(nFile)
    /\ nPc' = "done"
    /\ UNCHANGED <<nFile, serverVars, decideVars, tensorVars>>

NextNormalize == NormalizeApply

SpecNormalize == InitNormalize /\ [][NextNormalize]_vars

(***************************************************************************)
(* SpecTensor: the pixel loop of PreprocessImage (step 3), one iteration   *)
(* of the inner loop per step, on a resized image of any bounds.           *)
(*                                                                         *)
(* A colour is what At(x, y).RGBA() returns: four 16-bit components.       *)
(* tensorData and writes are indexed from 1: Go's index i is i + 1 here.   *)
(***************************************************************************)
MaxDim == 2

Colours ==
    {[r |-> 65535, g |-> 32896, b |-> 255, a |-> 65535],
     [r |-> 65535, g |-> 32896, b |-> 255, a |-> 256],
     [r |-> 256, g |-> 0, b |-> 65535, a |-> 32896]}

Pixels(width, height) == (0..(height - 1)) \X (0..(width - 1))

ResizedImages ==
    UNION {[w : {width}, h : {height}, at : [Pixels(width, height) -> Colours]] :
             <<width, height>> \in (1..MaxDim) \X (1..MaxDim)}

\* v >> 8 on a uint32
Shift8(v) == v \div 256

\* r, g, b, _ := resizedImg.At(x, y).RGBA(), in the order written
ChannelsOfBGR(colour) == <<colour.b, colour.g, colour.r>>

ChannelsOf(colour) == <<colour.r, colour.g, colour.b>>

\* baseIndex := (y*width + x) * 3
BaseIndexNoStride(y, x, width) == y * width + x

BaseIndex(y, x, width) == (y * width + x) * Channels

InitTensor ==
    /\ ServerInit("off") /\ DecideOff /\ NormalizeOff
    /\ resizedImg \in ResizedImages
    /\ tensorData = [i \in 1..TensorLen(resizedImg.h, resizedImg.w) |-> 0]
    /\ writes = [i \in 1..TensorLen(resizedImg.h, resizedImg.w) |-> 0]
    /\ ty = 0 /\ tx = 0
    /\ tPc = "loop"
    /\ decodedImg = <<>>

\* One pass through the body of the inner loop, then x++ (and y++ at the end
\* of a row).
PixelStep ==
    /\ tPc = "loop"
    /\ LET height == resizedImg.h
           width == resizedImg.w
           rgb == ChannelsOf(resizedImg.at[<<ty, tx>>])
           baseIndex == BaseIndex(ty, tx, width)
           written == {baseIndex + c + 1 : c \in 0..2}
       IN  /\ tensorData' =
                 [i \in DOMAIN tensorData |->
                    IF i \in written
                    THEN Shift8(rgb[i - baseIndex])
                    ELSE tensorData[i]]
           /\ writes' =
                 [i \in DOMAIN writes |->
                    IF i \in written THEN writes[i] + 1 ELSE writes[i]]
           /\ IF tx + 1 < width
              THEN tx' = tx + 1 /\ UNCHANGED <<ty, tPc>>
              ELSE /\ tx' = 0
                   /\ ty' = ty + 1
                   /\ tPc' = IF ty + 1 < height THEN "loop" ELSE "done"
    /\ UNCHANGED <<resizedImg, decodedImg, serverVars, decideVars, normalizeVars>>

NextTensor == PixelStep

SpecTensor == InitTensor /\ [][NextTensor]_vars

(***************************************************************************)
(* SpecResize: resize.Resize and the pixel loop on the pixels of a decoded *)
(* image.  The bounds are reduced: a decoded image of up to MaxSrc x       *)
(* MaxSrc pixels is resized to SmallTarget x SmallTarget.                  *)
(*                                                                         *)
(* A decoded pixel has three 8-bit channels.  resize.Resize resamples the  *)
(* rows, then the columns; each output value is the sum of the source      *)
(* values under the filter, weighted by integer coefficients, divided by   *)
(* the sum of those coefficients and clamped to 0..255.  The coefficients  *)
(* of Lanczos3 depend on the scale; two tap vectors with negative lobes,   *)
(* whose sums differ, stand for them.                                      *)
(***************************************************************************)
MaxSrc == 3
SmallTarget == 2

White == [r |-> 255, g |-> 255, b |-> 255]
Colours8 == {White, [r |-> 0, g |-> 0, b |-> 0], [r |-> 200, g |-> 100, b |-> 0]}

ConstantImage(width, height, colour) ==
    [w |-> width, h |-> height, at |-> [p \in Pixels(width, height) |-> colour]]

\* Constant images, and constant images with one pixel of another colour.
DecodedImages ==
    UNION {{ConstantImage(d[1], d[2], c) : c \in Colours8}
           \cup {[ConstantImage(d[1], d[2], c) EXCEPT !.at[q] = e] :
                   <<c, e, q>> \in Colours8 \X Colours8 \X Pixels(d[1], d[2])} :
             d \in (1..MaxSrc) \X (1..MaxSrc)}

KernelTaps(o) == IF o % 2 = 0 THEN <<-2, 11, 6, 0>> ELSE <<-1, 9, 9, -1>>

\* Go's integer division truncates toward zero.
TruncDiv(a, b) == IF a >= 0 THEN a \div b ELSE -((-a) \div b)

ClampUint8(v) == IF v < 0 THEN 0 ELSE IF v > 255 THEN 255 ELSE v

NormalizeByFixedScale(weighted, sum) == ClampUint8(TruncDiv(weighted, 16))

\* clampUint8(weighted / sum)
NormalizeBySum(weighted, sum) == ClampUint8(TruncDiv(weighted, sum))

\* Index of tap i of output o in a source line of n values, clamped to the
\* ends of the line.
SourceIndex(o, i, n, m) ==
    LET xi == ((o * n) \div m) - 1 + i
    IN  IF xi < 0 THEN 0 ELSE IF xi > n - 1 THEN n - 1 ELSE xi

\* One output value of a line of n source values line[0..n-1] resampled to m.
Resample(line, n, m, o) ==
    LET taps == KernelTaps(o)
        term[i \in 0..3] == taps[i + 1] * line[SourceIndex(o, i, n, m)]
        weighted == term[0] + term[1] + term[2] + term[3]
        sum == taps[1] + taps[2] + taps[3] + taps[4]
    IN  NormalizeBySum(weighted, sum)

\* resize.Resize(width, height, img, resize.Lanczos3) on the pixels.
ResizeLanczos3(width, height, img) ==
    IF width = img.w /\ height = img.h THEN img
    ELSE
      LET rows == [p \in Pixels(width, img.h) |->
                     [ch \in {"r", "g", "b"} |->
                        Resample([x \in 0..(img.w - 1) |-> img.at[<<p[1], x>>][ch]],
                                 img.w, width, p[2])]]
          out == [p \in Pixels(width, height) |->
                     [ch \in {"r", "g", "b"} |->
                        Resample([y \in 0..(img.h - 1) |-> rows[<<y, p[2]>>][ch]],
                                 img.h, height, p[1])]]
      IN  [w |-> width, h |-> height,
           at |-> [p \in Pixels(width, height) |->
                     [r |-> out[p]["r"], g |-> out[p]["g"], b |-> out[p]["b"]]]]

\* At(x, y).RGBA() of an opaque pixel with 8-bit channels: v | v<<8.
RGBA(colour) ==
    [r |-> colour.r * 257, g |-> colour.g * 257, b |-> colour.b * 257,
     a |-> 65535]

InitResize ==
    /\ ServerInit("off") /\ DecideOff /\ NormalizeOff
    /\ decodedImg \in DecodedImages
    /\ tPc = "resize"
    /\ resizedImg = <<>> /\ ty = 0 /\ tx = 0
    /\ tensorData = <<>> /\ writes = <<>>

\* resizedImg := resize.Resize(...); height, width; tensorData := make(...)
ResizeStep ==
    /\ tPc = "resize"
    /\ LET resized == ResizeLanczos3(SmallTarget, SmallTarget, decodedImg)
           height == resized.h
           width == resized.w
       IN  /\ resizedImg' = [w |-> width, h |-> height,
                             at |-> [p \in Pixels(width, height) |->
                                       RGBA(resized.at[p])]]
           /\ tensorData' = [i \in 1..TensorLen(height, width) |-> 0]
           /\ writes' = [i \in 1..TensorLen(height, width) |-> 0]
    /\ ty' = 0 /\ tx' = 0
    /\ tPc' = "loop"
    /\ UNCHANGED <<decodedImg, serverVars, decideVars, normalizeVars>>

NextResize ==
    \/ ResizeStep
    \/ PixelStep

SpecResize == InitResize /\ [][NextResize]_vars

(***************************************************************************)
(* Properties                                                              *)
(***************************************************************************)

\* C1 (SpecDecide): on a non-empty score vector the decision yields a
\* prediction whose label is "Cancer" when scores[0] is strictly above the
\* threshold and "Non-Cancer" when scores[0] is at or below it; a score equal
\* to the threshold yields "Non-Cancer".
C1_StrictThreshold ==
    (dPc = "done" /\ Len(dScores) > 0) =>
        LET s == dScores[1]
        IN  /\ dResult.kind = "prediction"
            /\ ((s.k = "fin" /\ s.v > 110593) \/ s = PosInf)
                  => dResult.prediction = "Cancer"
            /\ ((s.k = "fin" /\ s.v <= 110593) \/ s = NegInf)
                  => dResult.prediction = "Non-Cancer"

C1_Witness ==
    /\ dPc = "done" /\ Len(dScores) > 0
    /\ dScores[1] = Fin(110593)
    /\ dResult.prediction = "Non-Cancer"

\* C2 (Spec): a request whose handling ended with an empty score vector was
\* answered with an explicit error value: the handler did not panic and did
\* not write a classification result.
C2_EmptyOutputError ==
    \A r \in Requests :
        (pc[r] = "done" /\ prediction[r] = <<>>) => response[r].kind = "error"

\* C3 (SpecDecide): on a non-finite scores[0] (NaN, +Inf, -Inf) the decision
\* fails with an error and emits no label.
C3_InvalidScoreError ==
    (dPc = "done" /\ Len(dScores) > 0 /\ ~IsFinite(dScores[1])) =>
        dResult.kind = "error"

\* C4 (Spec): a request whose uploaded bytes PreprocessImage could not
\* decode is answered with status 400 and an error body.
C4_DecodeFailure400 ==
    \A r \in Requests :
        (pc[r] = "done" /\ calls[r].preprocess = 1 /\ inputTensor[r] = NoTensor)
            => (response[r].status = 400 /\ response[r].kind = "error")

\* C5 (Spec): a finished request was answered either with 200 and a
\* classification result, after upload retrieval, preprocessing and inference
\* all succeeded for it, or with 400 or 500 and an error field.
C5_ExplicitOutcome ==
    \A r \in Requests :
        pc[r] = "done" =>
            \/ /\ response[r].kind = "prediction"
               /\ response[r].status = 200
               /\ fileHeader[r] = "ok"
               /\ inputTensor[r] # NoTensor
               /\ calls[r] = [preprocess |-> 1, predict |-> 1]
            \/ /\ response[r].kind = "error"
               /\ response[r].status \in {400, 500}

\* C6 (Spec): a request whose form has no "image" file is answered with
\* status 400 and an error body, and neither PreprocessImage nor Predict is
\* called for it.
C6_MissingImage ==
    \A r \in Requests :
        fileHeader[r] = "err" =>
            /\ pc[r] = "done"
            /\ response[r].status = 400
            /\ response[r].kind = "error"
            /\ calls[r] = [preprocess |-> 0, predict |-> 0]
            /\ inputTensor[r] = NoTensor

C6_Witness ==
    \E r \in Requests :
        /\ fileHeader[r] = "err"
        /\ response[r] = ErrorResponse(400, <<"image file is required">>)

\* C7 (SpecNormalize): for every decodable image, whatever its width and
\* height, PreprocessImage returns a tensor of shape (1,224,224,3) whose
\* buffer holds 1*224*224*3 values.
C7_TensorShape ==
    (nPc = "done" /\ nFile.decodable) =>
        /\ nResult.err = <<>>
        /\ nResult.tensor.shape = <<1, 224, 224, 3>>
        /\ nResult.tensor.len = 1 * 224 * 224 * 3

C7_Witness ==
    /\ nPc = "done" /\ nFile.decodable
    /\ nFile.w = 512 /\ nFile.h = 100
    /\ nResult.tensor.shape = <<1, 224, 224, 3>>

\* The pixels the loop has been through: all of them once it is done.
Processed(y, x) == tPc = "done" \/ y < ty \/ (y = ty /\ x < tx)

\* C8 (SpecTensor): the three values written for a pixel are its 16-bit red,
\* green and blue components shifted right by 8 bits, in the order R, G, B,
\* whatever its alpha; every value of the buffer is an integer in 0..255.
C8_ChannelValues ==
    tPc \in {"loop", "done"} =>
        /\ \A i \in DOMAIN tensorData : tensorData[i] \in 0..255
        /\ \A p \in Pixels(resizedImg.w, resizedImg.h) :
              Processed(p[1], p[2]) =>
                  LET colour == resizedImg.at[p]
                      base == (p[1] * resizedImg.w + p[2]) * 3
                      R == tensorData[base + 1]
                      G == tensorData[base + 2]
                      B == tensorData[base + 3]
                  IN  /\ R * 256 <= colour.r /\ colour.r < (R + 1) * 256
                      /\ G * 256 <= colour.g /\ colour.g < (G + 1) * 256
                      /\ B * 256 <= colour.b /\ colour.b < (B + 1) * 256

C8_Witness ==
    /\ tPc = "done"
    /\ resizedImg.w = 2 /\ resizedImg.h = 2
    /\ resizedImg.at[<<1, 0>>] = [r |-> 65535, g |-> 32896, b |-> 255, a |-> 256]
    /\ <<tensorData[7], tensorData[8], tensorData[9]>> = <<255, 128, 0>>

\* index(y, x, c) = (y*width + x)*3 + c
FlatIndex(y, x, c, width) == (y * width + x) * 3 + c

\* C9 (SpecTensor): the buffer is row-major and channel-last: channel c of
\* pixel (x, y) is stored at index (y*width + x)*3 + c; no two (y, x, c) share
\* an index, and every index of the buffer is written exactly once.
C9_RowMajorLayout ==
    tPc \in {"loop", "done"} =>
        LET width == resizedImg.w
            height == resizedImg.h
            triples == Pixels(width, height) \X (0..2)
        IN  /\ \A t \in triples :
                  LET y == t[1][1]
                      x == t[1][2]
                      c == t[2]
                      i == FlatIndex(y, x, c, width)
                  IN  /\ i \in 0..(Len(tensorData) - 1)
                      /\ writes[i + 1] = IF Processed(y, x) THEN 1 ELSE 0
                      /\ Processed(y, x) =>
                            tensorData[i + 1] =
                               <<resizedImg.at[<<y, x>>].r,
                                 resizedImg.at[<<y, x>>].g,
                                 resizedImg.at[<<y, x>>].b>>[c + 1] \div 256
            /\ {FlatIndex(t[1][1], t[1][2], t[2], width) : t \in triples}
                  = 0..(Len(tensorData) - 1)
            /\ Cardinality(triples) = Len(tensorData)
            /\ tPc = "done" => \A i \in DOMAIN writes : writes[i] = 1

C9_Witness ==
    /\ tPc = "done"
    /\ resizedImg.w = 2 /\ resizedImg.h = 1
    /\ \A i \in 1..6 : writes[i] = 1
    /\ resizedImg.at[<<0, 1>>].b = 65535 /\ tensorData[6] = 255

\* C10 (Spec): the engine is loaded at most once, and once the server is
\* serving no step changes the state held by the shared engine handle.
C10_HandleReadOnly ==
    [][/\ loads' <= 1
       /\ mainPc = "serving" =>
             <<model, engineInput, engineOutput>>' =
                <<model, engineInput, engineOutput>>]_vars

\* C11 (Spec): whatever the interleaving of the requests, the score vector a
\* request receives from the engine is the one the loaded graph computes
\* from that request's own input tensor.
C11_OwnTensor ==
    \A r \in Requests :
        pc[r] = "Decide" =>
            prediction[r] = ModelOutput(model, inputTensor[r].img)[1].data

\* C12 (Spec): start-up is ordered and fail-fast: an engine is loaded only
\* from a model file that is there, the server serves only with the engine
\* loaded, a failed download or load ends the process, and no request is
\* handled without a loaded engine.
C12_StartupOrder ==
    /\ loads \in {0, 1}
    /\ loads = 1 => (artifact /\ model \in Models)
    /\ mainPc = "serving" => loads = 1
    /\ mainPc \in {"download", "load"} => loads = 0
    /\ mainPc = "exited" => loads = 0
    /\ \A r \in Requests :
          (pc[r] # "FormFile" \/ response[r] # NoResponse \/ calls[r] # NoCalls)
              => (loads = 1 /\ model \in Models)

C12_Witness ==
    /\ mainPc = "serving" /\ loads = 1 /\ artifact
    /\ \E r \in Requests : response[r].kind = "prediction"

\* C13 (SpecDecide): the result reports scores[0] as confidence_score, with
\* its class and value kept by the widening, whatever the other elements of
\* the vector, and reports threshold 0.110593 and model name
\* "baseline_cnn_v2"; scores [0.989] give "Cancer", 0.989, 0.110593.
C13_ResultFields ==
    (dPc = "done" /\ Len(dScores) > 0) =>
        /\ dResult.status = 200
        /\ dResult.confidence_score = dScores[1]
        /\ dResult.model_threshold = Fin(110593)
        /\ dResult.model_name = "baseline_cnn_v2"
        /\ dResult.prediction \in {"Cancer", "Non-Cancer"}
        /\ dResult.prediction = "Cancer" <=> Gt(dScores[1], Fin(110593))
        /\ dScores[1] = Fin(989000) =>
              dResult = [status |-> 200, kind |-> "prediction",
                         prediction |-> "Cancer",
                         confidence_score |-> Fin(989000),
                         model_name |-> "baseline_cnn_v2",
                         model_threshold |-> Fin(110593)]

C13_Witness ==
    /\ dPc = "done"
    /\ dScores = <<Fin(989000), Fin(0)>>
    /\ dResult.prediction = "Cancer"
    /\ dResult.confidence_score = Fin(989000)

\* C15 (Spec): nothing is retried: for one request PreprocessImage is called
\* at most once and Predict at most once, and the first failing step ends
\* the request (no Predict after a failed PreprocessImage, no decision after
\* a failed Predict).
C15_NoRetry ==
    \A r \in Requests :
        /\ calls[r].preprocess <= 1
        /\ calls[r].predict <= 1
        /\ response[r].kind = "error" => pc[r] = "done"
        /\ (calls[r].preprocess = 1 /\ inputTensor[r] = NoTensor)
              => (pc[r] = "done" /\ calls[r].predict = 0)
        /\ (response[r].kind = "error" /\ calls[r].predict = 1)
              => prediction[r] = <<>>
        /\ (response[r].kind = "error" /\ fileHeader[r] = "ok"
               /\ calls[r].preprocess = 0) => calls[r].predict = 0

C15_Witness ==
    \E r \in Requests :
        /\ pc[r] = "done"
        /\ response[r] = ErrorResponse(500, <<"prediction failed",
                                               "failed to run model">>)
        /\ calls[r] = [preprocess |-> 1, predict |-> 1]

\* The errors ONNXInference.Predict returns, as the handler reports them.
PredictErrors ==
    {ErrorResponse(500, <<"prediction failed", e>>) :
        e \in {"failed to set input", "failed to run model",
               "failed to get output", "no output tensors found",
               "failed to convert output to float32 slice"}}

\* C17 (Spec): when Predict returns to the handler it has returned either an
\* error and no scores or scores and no error: an empty list of output
\* tensors or an output slot 0 that is not float32 gives an error, and the
\* scores returned are the data of output slot 0, whatever the later slots.
C17_PredictOutcome ==
    [][\A r \in Requests :
          (pc[r] \in {"SetInput", "Run", "GetOutput"}
              /\ pc'[r] \notin {"SetInput", "Run", "GetOutput"}) =>
             /\ pc'[r] \in {"Decide", "done"}
             /\ pc'[r] = "done" =>
                   /\ response'[r] \in PredictErrors
                   /\ prediction'[r] = <<>>
             /\ pc'[r] = "Decide" =>
                   /\ response'[r] = NoResponse
                   /\ pc[r] = "GetOutput"
                   /\ Len(engineOutput) > 0
                   /\ engineOutput[1].dtype = "float32"
                   /\ prediction'[r] = engineOutput[1].data
             /\ (pc[r] = "GetOutput" /\ Len(engineOutput) = 0)
                   => response'[r] \in PredictErrors
             /\ (pc[r] = "GetOutput" /\ Len(engineOutput) > 0
                    /\ engineOutput[1].dtype # "float32")
                   => response'[r] \in PredictErrors]_vars

C17_Witness ==
    \E r \in Requests :
        /\ pc[r] = "Decide"
        /\ Len(engineOutput) = 2
        /\ prediction[r] = <<Fin(110593), Fin(989000)>>
        /\ response[r] = NoResponse

\* The steps of Handler.Predict in the order of the code.
StepRank(label) ==
    CASE label = "FormFile" -> 1
      [] label = "Open" -> 2
      [] label = "Preprocess" -> 3
      [] label = "SetInput" -> 4
      [] label = "Run" -> 5
      [] label = "GetOutput" -> 6
      [] label = "Decide" -> 7
      [] OTHER -> 8

\* C18 (Spec): a request goes through upload retrieval, preprocessing,
\* inference and decision in that order; it has a response exactly when its
\* handling has ended; once the response is written it is never written
\* again and no later step runs (no inference after a failed preprocessing,
\* no decision after a failed inference).
C18_OneResponse ==
    [][\A r \in Requests :
          /\ StepRank(pc'[r]) >= StepRank(pc[r])
          /\ (pc'[r] # pc[r] /\ pc'[r] # "done")
                => StepRank(pc'[r]) = StepRank(pc[r]) + 1
          /\ (pc'[r] = "done") <=> (response'[r] # NoResponse)
          /\ response[r] # NoResponse =>
                /\ response'[r] = response[r]
                /\ calls'[r] = calls[r]
                /\ prediction'[r] = prediction[r]
                /\ inputTensor'[r] = inputTensor[r]
          /\ calls'[r].predict >= 1 =>
                (calls'[r].preprocess = 1 /\ inputTensor'[r] # NoTensor)
          /\ (response'[r].kind \in {"prediction", "panic"}
                 /\ response[r] = NoResponse)
                => (pc[r] = "Decide" /\ calls[r].predict = 1)]_vars

C18_Witness ==
    \E r \in Requests :
        /\ pc[r] = "done"
        /\ response[r] = ErrorResponse(500, <<"failed to preprocess image",
                                               "failed to decode image">>)
        /\ calls[r] = [preprocess |-> 1, predict |-> 0]

\* The decoded image has the same colour at every pixel.
IsConstant(img, colour) == \A p \in DOMAIN img.at : img.at[p] = colour

====
